---- MODULE Spec2Model ----
(***************************************************************************)
(* RemoteSource (src/Processors/Sources/RemoteSource.cpp): the processor   *)
(* that streams the blocks of a remote query into a local pipeline.        *)
(*                                                                         *)
(* One RemoteSource instance is driven by a scheduler thread (prepare,     *)
(* work -> tryGenerate, onUpdatePorts), cancelled from another thread      *)
(* (onCancel), and drained by the consumers of its two output ports.       *)
(* tryGenerate and onCancel are split at the points where the other thread *)
(* can interleave; every other handler is one atomic action.               *)
(***************************************************************************)
EXTENDS Integers, Sequences, FiniteSets, TLC

\* Bounds of the model.
MaxBlocks == 2
MaxCancels == 2
MaxFinishCalls == 3
MaxSideReads == 2

\* File descriptors a non-blocking read may hand back.
Fds == {3}

\* Row counts of the non-empty blocks the remote side may send.
RowCounts == {5, 10}

VARIABLES
    cfg,    \* construction arguments: async_read, and the stream the remote side holds
    src,    \* fields of RemoteSource and of its ISource base
    out,    \* the main output port (getPort())
    dep,    \* the coordination port (dependency_port)
    h,      \* the RemoteQueryExecutor shared through query_executor
    sch,    \* the scheduler thread: where it is, what prepare() last returned
    canc,   \* the cancelling thread: where it is inside onCancel()
    obs,    \* history: calls made on the executor, chunks pushed, last prepare/tryGenerate
    side    \* the pipe around the source: executor references, totals and extremes sources

vars == <<cfg, src, out, dep, h, sch, canc, obs, side>>

----------------------------------------------------------------------------
\* Values

\* A chunk without ChunkInfo.
NoChunkInfo == [present |-> FALSE, bucket_num |-> -1, is_overflows |-> FALSE]

\* BlockInfo as default-constructed.
DefaultBlockInfo == [bucket_num |-> -1, is_overflows |-> FALSE]

\* The BlockInfo values the blocks of the remote side may carry.
BlockInfos == {DefaultBlockInfo, [bucket_num |-> 7, is_overflows |-> TRUE]}

\* Chunk(): no columns, no rows.
EmptyChunk == [num_columns |-> 0, num_rows |-> 0, chunk_info |-> NoChunkInfo]

\* Block(): operator bool is false.
EmptyBlock == [columns |-> 0, rows |-> 0, info |-> DefaultBlockInfo]

DataBlock(r) == [columns |-> 1, rows |-> r, info |-> DefaultBlockInfo]

\* Chunk::operator bool
ChunkHasData(c) == c.num_rows > 0 \/ c.num_columns > 0

RECURSIVE SeqsUpTo(_, _)
SeqsUpTo(S, n) ==
    IF n = 0 THEN {<<>>}
    ELSE LET shorter == SeqsUpTo(S, n - 1)
         IN shorter \cup {Append(s, x) : s \in {t \in shorter : Len(t) = n - 1}, x \in S}

\* The streams of non-empty blocks (by row count) the remote side may hold.
Streams == SeqsUpTo(RowCounts, MaxBlocks)

----------------------------------------------------------------------------
\* Ports: single-slot edges.

port_finish(p) == [p EXCEPT !.finished = TRUE]

port_canPush(p) == p.data = <<>>

port_push(p, c) == [p EXCEPT !.data = Append(@, c)]

----------------------------------------------------------------------------
\* RemoteQueryExecutor, as RemoteSource uses it.

executor_setCallbacks(hh) == [hh EXCEPT !.callbacks = TRUE]

executor_sendQuery(hh) == [hh EXCEPT !.sent = TRUE]

executor_finish(hh) == [hh EXCEPT !.finished = TRUE]

executor_cancel(hh) == [hh EXCEPT !.cancelled = TRUE]

\* readBlock(): the next block of the stream, an empty block at its end.
executor_readBlock(hh, blocks) ==
    IF hh.cancelled \/ hh.finished \/ hh.pos > Len(blocks)
    THEN [type |-> "Data", block |-> EmptyBlock, fd |-> -1, h |-> hh]
    ELSE [type |-> "Data",
          block |-> [DataBlock(blocks[hh.pos]) EXCEPT !.info = hh.infos[hh.pos]],
          fd |-> -1,
          h |-> [hh EXCEPT !.pos = @ + 1]]

\* read(read_context): what a non-blocking read may return.
executor_read(hh, blocks) ==
    {[type |-> "Nothing", block |-> EmptyBlock, fd |-> -1, h |-> hh]}
    \cup {[type |-> "FileDescriptor", block |-> EmptyBlock, fd |-> f, h |-> hh] : f \in Fds}
    \cup {[type |-> "ParallelReplicasToken", block |-> EmptyBlock, fd |-> -1, h |-> hh]}
    \cup {executor_readBlock(hh, blocks)}

----------------------------------------------------------------------------
\* ISource

\* ISource::prepare()
ISource_prepare(s, o) ==
    IF s.finished
    THEN [status |-> "Finished", src |-> s, out |-> port_finish(o)]
    ELSE IF o.finished
    THEN [status |-> "Finished", src |-> s, out |-> o]
    ELSE IF ~port_canPush(o)
    THEN [status |-> "PortFull", src |-> s, out |-> o]
    ELSE IF ~s.has_input
    THEN [status |-> "Ready", src |-> s, out |-> o]
    ELSE [status |-> "PortFull",
          src |-> [s EXCEPT !.has_input = FALSE],
          out |-> port_push(o, s.current_chunk)]

\* ISource::work(), given what tryGenerate() returned or threw.
ISource_work(s, g) ==
    IF g.kind = "chunk"
    THEN [s EXCEPT !.current_chunk = g.chunk,
                   !.has_input = ChunkHasData(g.chunk)]
    ELSE IF g.kind = "nullopt"
    THEN [s EXCEPT !.finished = TRUE]
    ELSE [s EXCEPT !.finished = TRUE, !.got_exception = TRUE]

----------------------------------------------------------------------------
\* RemoteSource

\* Faulty variant: the cancellation path reports Finished with the output left open.
prepareOnCancel_NoPortFinish(s, o, d, hh) ==
    [status |-> "Finished", base |-> "none", src |-> s,
     out |-> o, dep |-> d, h |-> hh, finish |-> 0]

\* Faulty variant: the cancellation path also tells the executor to finish.
prepareOnCancel_Finishes(s, o, d, hh) ==
    [status |-> "Finished", base |-> "none", src |-> s,
     out |-> port_finish(o), dep |-> d, h |-> executor_finish(hh), finish |-> 1]

\* prepare(), lines 57-61: cancellation was requested.
prepareOnCancel(s, o, d, hh) ==
    [status |-> "Finished", base |-> "none", src |-> s,
     out |-> port_finish(o), dep |-> d, h |-> hh, finish |-> 0]

\* Faulty variant: Finished is passed on without finishing the executor.
prepareOnFinished_NoFinish(b, d, hh) ==
    [status |-> "Finished", base |-> b.status,
     src |-> [b.src EXCEPT !.is_async_state = FALSE],
     out |-> b.out,
     dep |-> IF d.connected THEN port_finish(d) ELSE d,
     h |-> hh, finish |-> 0]

\* Faulty variant: Finished is passed on with the coordination port left open.
prepareOnFinished_NoDepFinish(b, d, hh) ==
    [status |-> "Finished", base |-> b.status,
     src |-> [b.src EXCEPT !.is_async_state = FALSE],
     out |-> b.out, dep |-> d,
     h |-> executor_finish(hh), finish |-> 1]

\* prepare(), lines 69-77: ISource::prepare() returned Finished (b).
prepareOnFinished(b, d, hh) ==
    [status |-> "Finished", base |-> b.status,
     src |-> [b.src EXCEPT !.is_async_state = FALSE],
     out |-> b.out,
     dep |-> IF d.connected THEN port_finish(d) ELSE d,
     h |-> executor_finish(hh), finish |-> 1]

\* Faulty variant: the marker is pushed without asking canPush().
prepareOnPortFull_NoCanPush(b, d, hh) ==
    [status |-> "PortFull", base |-> b.status, src |-> b.src,
     out |-> b.out,
     dep |-> IF d.connected /\ ~d.finished
             THEN port_push(d, EmptyChunk)
             ELSE d,
     h |-> hh, finish |-> 0]

\* prepare(), lines 79-87: ISource::prepare() returned PortFull (b).
prepareOnPortFull(b, d, hh) ==
    [status |-> "PortFull", base |-> b.status, src |-> b.src,
     out |-> b.out,
     dep |-> IF d.connected /\ ~d.finished /\ port_canPush(d)
             THEN port_push(d, EmptyChunk)
             ELSE d,
     h |-> hh, finish |-> 0]

\* Faulty variant: a parked source re-entered leaves the async sub-state by itself.
prepare_AsyncResumes(s, o, d, hh) ==
    IF s.was_query_canceled
    THEN prepareOnCancel(s, o, d, hh)
    ELSE LET b == ISource_prepare([s EXCEPT !.is_async_state = FALSE], o)
         IN IF b.status = "Finished"
            THEN prepareOnFinished(b, d, hh)
            ELSE IF b.status = "PortFull"
            THEN prepareOnPortFull(b, d, hh)
            ELSE [status |-> b.status, base |-> b.status, src |-> b.src,
                  out |-> b.out, dep |-> d, h |-> hh, finish |-> 0]

\* Faulty variant: the async sub-state is checked before the cancellation flag.
prepare_AsyncFirst(s, o, d, hh) ==
    IF s.is_async_state
    THEN [status |-> "Async", base |-> "none", src |-> s,
          out |-> o, dep |-> d, h |-> hh, finish |-> 0]
    ELSE IF s.was_query_canceled
    THEN prepareOnCancel(s, o, d, hh)
    ELSE LET b == ISource_prepare(s, o)
         IN IF b.status = "Finished"
            THEN prepareOnFinished(b, d, hh)
            ELSE IF b.status = "PortFull"
            THEN prepareOnPortFull(b, d, hh)
            ELSE [status |-> b.status, base |-> b.status, src |-> b.src,
                  out |-> b.out, dep |-> d, h |-> hh, finish |-> 0]

\* RemoteSource::prepare()
prepare(s, o, d, hh) ==
    IF s.was_query_canceled
    THEN prepareOnCancel(s, o, d, hh)
    ELSE IF s.is_async_state
    THEN [status |-> "Async", base |-> "none", src |-> s,
          out |-> o, dep |-> d, h |-> hh, finish |-> 0]
    ELSE LET b == ISource_prepare(s, o)
         IN IF b.status = "Finished"
            THEN prepareOnFinished(b, d, hh)
            ELSE IF b.status = "PortFull"
            THEN prepareOnPortFull(b, d, hh)
            ELSE [status |-> b.status, base |-> b.status, src |-> b.src,
                  out |-> b.out, dep |-> d, h |-> hh, finish |-> 0]

\* Faulty variant: the column count is taken for the row count.
MakeChunk_ColumnsAsRows(block) ==
    [num_columns |-> block.columns, num_rows |-> block.columns,
     chunk_info |-> NoChunkInfo]

\* The Chunk tryGenerate() builds from a non-empty block.
MakeChunk(block) ==
    [num_columns |-> block.columns, num_rows |-> block.rows,
     chunk_info |-> NoChunkInfo]

\* Faulty variant: the info is attached with its bucket number left at the default.
setAggregatedChunkInfo_NoBucket(s, chunk, block) ==
    IF s.add_aggregation_info
    THEN [chunk EXCEPT !.chunk_info =
              [present |-> TRUE, bucket_num |-> -1,
               is_overflows |-> block.info.is_overflows]]
    ELSE chunk

\* tryGenerate(), lines 156-162: the AggregatedChunkInfo of the chunk.
setAggregatedChunkInfo(s, chunk, block) ==
    IF s.add_aggregation_info
    THEN [chunk EXCEPT !.chunk_info =
              [present |-> TRUE, bucket_num |-> block.info.bucket_num,
               is_overflows |-> block.info.is_overflows]]
    ELSE chunk

\* RemoteSource::RemoteSource(), lines 19-27: add_aggregation_info as the caller
\* gave it, forced when the header has a DataTypeAggregateFunction column.
RemoteSource_add_aggregation_info(add_aggregation_info_, header_aggregate) ==
    IF header_aggregate THEN TRUE ELSE add_aggregation_info_

\* Faulty variant: the descriptor is recorded but the async sub-state is not entered.
tryGenerateOnFileDescriptor_NoPark(s, hh, res) ==
    [kind |-> "chunk", chunk |-> EmptyChunk,
     src |-> [s EXCEPT !.fd = res.fd],
     h |-> hh, finish |-> 0]

\* Faulty variant: Nothing is answered with an empty chunk, and the read comes again.
tryGenerateOnNothing_Retry(s, hh) ==
    [kind |-> "chunk", chunk |-> EmptyChunk, src |-> s, h |-> hh, finish |-> 0]

\* tryGenerate(), lines 124-125: the read returned Nothing, a LOGICAL_ERROR is thrown.
tryGenerateOnNothing(s, hh) ==
    [kind |-> "throw", chunk |-> EmptyChunk, src |-> s, h |-> hh, finish |-> 0]

\* tryGenerate(), lines 127-132: the read returned a file descriptor.
tryGenerateOnFileDescriptor(s, hh, res) ==
    [kind |-> "chunk", chunk |-> EmptyChunk,
     src |-> [s EXCEPT !.fd = res.fd, !.is_async_state = TRUE],
     h |-> hh, finish |-> 0]

\* Faulty variant: the token falls through to the block path, where its block is empty.
tryGenerateOnToken_AsBlock(s, hh) ==
    [kind |-> "nullopt", chunk |-> EmptyChunk,
     src |-> [s EXCEPT !.is_async_state = FALSE],
     h |-> executor_finish(hh), finish |-> 1]

\* tryGenerate(), lines 134-138: the read returned a parallel-replicas token.
tryGenerateOnToken(s, hh) ==
    [kind |-> "chunk", chunk |-> EmptyChunk,
     src |-> [s EXCEPT !.is_async_state = FALSE],
     h |-> hh, finish |-> 0]

\* tryGenerate(), lines 147-164: the block that was read.
tryGenerateOnBlock(s, hh, block) ==
    IF block.columns = 0
    THEN [kind |-> "nullopt", chunk |-> EmptyChunk, src |-> s,
          h |-> executor_finish(hh), finish |-> 1]
    ELSE [kind |-> "chunk",
          chunk |-> setAggregatedChunkInfo(s, MakeChunk(block), block),
          src |-> s, h |-> hh, finish |-> 0]

\* RemoteSource::tryGenerate(), from the read on: res is what the executor returned.
tryGenerateRead(s, hh, res) ==
    IF ~s.async_read
    THEN tryGenerateOnBlock(s, hh, res.block)
    ELSE IF res.type = "Nothing"
    THEN tryGenerateOnNothing(s, hh)
    ELSE IF res.type = "FileDescriptor"
    THEN tryGenerateOnFileDescriptor(s, hh, res)
    ELSE IF res.type = "ParallelReplicasToken"
    THEN tryGenerateOnToken(s, hh)
    ELSE tryGenerateOnBlock([s EXCEPT !.is_async_state = FALSE], hh, res.block)

\* Faulty variant: the flag is flipped instead of set.
onCancelFlag_Toggle(s) == [s EXCEPT !.was_query_canceled = ~@]

\* RemoteSource::onCancel(), line 169: the flag.
onCancelFlag(s) == [s EXCEPT !.was_query_canceled = TRUE]

\* RemoteSource::onCancel(), line 170: the executor.
onCancelExecutor(hh) == executor_cancel(hh)

\* RemoteSource::onCancel(), both steps with nothing in between.
onCancel(s, hh) == [src |-> onCancelFlag(s), h |-> onCancelExecutor(hh)]

\* Faulty variant: the port is not looked at.
onUpdatePorts_Unconditional(s, o, hh) ==
    [src |-> [s EXCEPT !.was_query_canceled = TRUE],
     h |-> executor_finish(hh), finish |-> 1]

\* RemoteSource::onUpdatePorts()
onUpdatePorts(s, o, hh) ==
    IF o.finished
    THEN [src |-> [s EXCEPT !.was_query_canceled = TRUE],
          h |-> executor_finish(hh), finish |-> 1]
    ELSE [src |-> s, h |-> hh, finish |-> 0]

----------------------------------------------------------------------------
\* RemoteTotalsSource, RemoteExtremesSource and the pipe

\* The executor the caller hands to createRemoteSourcePipe, and any other one.
Executors == {"query_executor", "other_executor"}

\* getTotals() / getExtremes(): the block the executor holds, if any. answers is
\* what it will say to the calls to come, none being left meaning no block.
executor_getSideBlock(answers) ==
    IF answers # <<>> /\ Head(answers) THEN DataBlock(1) ELSE EmptyBlock

\* Faulty variant: the chunk is built without looking whether the block is there.
RemoteTotalsSource_generate_Unchecked(block) ==
    [num_columns |-> 1, num_rows |-> block.rows, chunk_info |-> NoChunkInfo]

\* RemoteTotalsSource::generate(), given what getTotals() returned.
RemoteTotalsSource_generate(block) ==
    IF block.columns # 0
    THEN [num_columns |-> block.columns, num_rows |-> block.rows,
          chunk_info |-> NoChunkInfo]
    ELSE EmptyChunk

\* RemoteExtremesSource::generate(), given what getExtremes() returned.
RemoteExtremesSource_generate(block) ==
    IF block.columns # 0
    THEN [num_columns |-> block.columns, num_rows |-> block.rows,
          chunk_info |-> NoChunkInfo]
    ELSE EmptyChunk

\* ISource::tryGenerate(), the default: an empty chunk from generate() is the end.
ISource_tryGenerate(chunk) ==
    IF ChunkHasData(chunk)
    THEN [kind |-> "chunk", chunk |-> chunk]
    ELSE [kind |-> "nullopt", chunk |-> EmptyChunk]

\* A side-channel source as constructed (or not) over executor qe.
SideSource(wanted, qe, answers) ==
    [exists |-> wanted,
     query_executor |-> IF wanted THEN qe ELSE "none",
     finished |-> FALSE, has_input |-> FALSE, got_exception |-> FALSE,
     current_chunk |-> EmptyChunk,
     port |-> [finished |-> FALSE, data |-> <<>>],
     status |-> "none",
     answers0 |-> answers, answers |-> answers,
     calls |-> IF wanted THEN {"getHeader"} ELSE {},
     gets |-> 0, emitted |-> 0]

\* Faulty variant: the side-channel sources get an executor of their own.
createRemoteSourcePipe_Cloned(qe, add_totals, add_extremes, tAnswers, eAnswers) ==
    [main_executor |-> qe,
     totals |-> SideSource(add_totals, "other_executor", tAnswers),
     extremes |-> SideSource(add_extremes, "other_executor", eAnswers)]

\* createRemoteSourcePipe(): the main source, and the side-channel sources asked for.
createRemoteSourcePipe(qe, add_totals, add_extremes, tAnswers, eAnswers) ==
    [main_executor |-> qe,
     totals |-> SideSource(add_totals, qe, tAnswers),
     extremes |-> SideSource(add_extremes, qe, eAnswers)]

SideKinds == {"totals", "extremes"}

\* The length of the run of present blocks the answers start with.
RECURSIVE LeadingPresent(_)
LeadingPresent(answers) ==
    IF answers = <<>> \/ ~Head(answers) THEN 0
    ELSE 1 + LeadingPresent(Tail(answers))

----------------------------------------------------------------------------
\* History

FinishCalls == obs.calls.finishGen + obs.calls.finishPrep + obs.calls.finishUpd

NoPrep ==
    [canc |-> FALSE, async |-> FALSE, base |-> "none", status |-> "none",
     markers |-> 0, depOk |-> FALSE, portsSame |-> TRUE, handleSame |-> TRUE,
     finish |-> 0, outFinished |-> FALSE, prevGen |-> "none",
     baseAt |-> "none", depConnected |-> FALSE, depFinished |-> FALSE,
     asyncAfter |-> FALSE, hFinished |-> FALSE, hCancelled |-> FALSE]

NoGen ==
    [outcome |-> "none", kind |-> "none", chunk |-> EmptyChunk, fdGiven |-> -1,
     fd |-> -1, is_async_state |-> FALSE, has_input |-> FALSE, finish |-> 0,
     emitted |-> 0, srcSame |-> TRUE, hSame |-> TRUE]

----------------------------------------------------------------------------

\* The construction arguments and remote streams of a source that is not asked
\* for aggregation info and whose header has no aggregate-function column.
PlainConfigs ==
    {[async_read |-> a, blocks |-> b,
      add_aggregation_info_ |-> FALSE, header_aggregate |-> FALSE,
      infos |-> [i \in 1..Len(b) |-> DefaultBlockInfo]] :
        a \in BOOLEAN, b \in Streams}

\* The same with every choice about aggregation info, over blocks of one size.
AggConfigs ==
    {[async_read |-> a, blocks |-> [i \in 1..n |-> 5],
      add_aggregation_info_ |-> g, header_aggregate |-> y,
      infos |-> f] :
        a \in BOOLEAN, g \in BOOLEAN, y \in BOOLEAN,
        n \in 0..MaxBlocks, f \in SeqsUpTo(BlockInfos, MaxBlocks)} 

\* RemoteSource as constructed from c, with its ports and its executor.
SourceInit(c) ==
    /\ cfg = c
    /\ src = [was_query_canceled |-> FALSE, was_query_sent |-> FALSE,
              is_async_state |-> FALSE, fd |-> -1, async_read |-> cfg.async_read,
              add_aggregation_info |->
                  RemoteSource_add_aggregation_info(c.add_aggregation_info_,
                                                    c.header_aggregate),
              finished |-> FALSE, has_input |-> FALSE, got_exception |-> FALSE,
              current_chunk |-> EmptyChunk]
    /\ out = [finished |-> FALSE, data |-> <<>>]
    /\ dep = [connected |-> FALSE, finished |-> FALSE, data |-> <<>>]
    /\ h = [sent |-> FALSE, callbacks |-> FALSE, finished |-> FALSE,
            cancelled |-> FALSE, pos |-> 1, infos |-> c.infos]
    /\ sch = [pc |-> "idle", status |-> "none", started |-> FALSE, fdReady |-> FALSE]
    /\ canc = [pc |-> "idle", reqs |-> 0]
    /\ obs = [emitted |-> <<>>, emittedInfo |-> <<>>,
              calls |-> [send |-> 0, finishGen |-> 0, finishPrep |-> 0,
                         finishUpd |-> 0, cancel |-> 0],
              touchedAfterStop |-> FALSE, readBeforeSend |-> FALSE,
              cancelSeenUnsent |-> FALSE, downClosed |-> FALSE,
              lastPrep |-> NoPrep, lastGen |-> NoGen]

MainInit == \E c \in PlainConfigs : SourceInit(c)

\* A pipe of the main source alone.
Init ==
    /\ MainInit
    /\ side = createRemoteSourcePipe("query_executor", FALSE, FALSE, <<>>, <<>>)

\* What getTotals() / getExtremes() may answer, call after call.
SideAnswers == SeqsUpTo(BOOLEAN, MaxSideReads)

\* A pipe with any of the side-channel sources; the main source is not run.
InitSide ==
    /\ MainInit
    /\ ~cfg.async_read /\ cfg.blocks = <<>>
    /\ \E add_totals \in BOOLEAN, add_extremes \in BOOLEAN :
         \E ta \in (IF add_totals THEN SideAnswers ELSE {<<>>}),
            ea \in (IF add_extremes THEN SideAnswers ELSE {<<>>}) :
            side = createRemoteSourcePipe("query_executor", add_totals, add_extremes, ta, ea)

\* A pipe with any of the side-channel sources, each holding one block, around a
\* blocking main source.
InitPipe ==
    /\ MainInit
    /\ ~cfg.async_read /\ cfg.blocks = <<5>>
    /\ \E add_totals \in BOOLEAN, add_extremes \in BOOLEAN :
         side = createRemoteSourcePipe("query_executor", add_totals, add_extremes,
                                       IF add_totals THEN <<TRUE>> ELSE <<>>,
                                       IF add_extremes THEN <<TRUE>> ELSE <<>>)

\* RemoteSource::connectToScheduler(), before the processor is scheduled.
ConnectToScheduler ==
    /\ ~sch.started
    /\ ~dep.connected
    /\ dep' = [dep EXCEPT !.connected = TRUE]
    /\ UNCHANGED <<side, cfg, src, out, h, sch, canc, obs>>

\* The scheduler calls prepare().
Prepare ==
    /\ sch.pc = "idle"
    /\ sch.status # "Ready"
    /\ sch.status = "Async" => (sch.fdReady \/ src.was_query_canceled)
    /\ LET r == prepare(src, out, dep, h)
       IN /\ r.finish > 0 => FinishCalls < MaxFinishCalls
          /\ src' = r.src
          /\ out' = r.out
          /\ dep' = r.dep
          /\ h' = r.h
          /\ sch' = [sch EXCEPT !.status = r.status, !.started = TRUE,
                                !.fdReady = IF r.status = "Async" THEN FALSE ELSE @]
          /\ obs' = [obs EXCEPT
                !.emitted = IF Len(r.out.data) > Len(out.data)
                            THEN Append(@, r.out.data[Len(r.out.data)].num_rows)
                            ELSE @,
                !.emittedInfo = IF Len(r.out.data) > Len(out.data)
                                THEN Append(@, r.out.data[Len(r.out.data)].chunk_info)
                                ELSE @,
                !.calls.finishPrep = @ + r.finish,
                !.lastPrep = [canc |-> src.was_query_canceled,
                              async |-> src.is_async_state,
                              base |-> r.base,
                              status |-> r.status,
                              markers |-> Len(r.dep.data) - Len(dep.data),
                              depOk |-> dep.connected /\ ~dep.finished /\ dep.data = <<>>,
                              portsSame |-> r.out = out /\ r.dep = dep,
                              handleSame |-> r.h = h /\ r.finish = 0,
                              finish |-> r.finish,
                              outFinished |-> r.out.finished,
                              prevGen |-> IF sch.status = "none"
                                          THEN obs.lastGen.outcome ELSE "none",
                              baseAt |-> ISource_prepare(src, out).status,
                              depConnected |-> dep.connected,
                              depFinished |-> r.dep.finished,
                              asyncAfter |-> r.src.is_async_state,
                              hFinished |-> r.h.finished,
                              hCancelled |-> r.h.cancelled]]
    /\ UNCHANGED <<side, cfg, canc>>

\* work() enters tryGenerate(): the was_query_canceled check.
TryGenerateCheck ==
    /\ sch.pc = "idle"
    /\ sch.status = "Ready"
    /\ IF src.was_query_canceled
       THEN /\ src' = ISource_work(src, [kind |-> "nullopt", chunk |-> EmptyChunk])
            /\ sch' = [sch EXCEPT !.status = "none"]
            /\ obs' = [obs EXCEPT
                   !.cancelSeenUnsent = @ \/ ~src.was_query_sent,
                   !.lastGen = [NoGen EXCEPT !.outcome = "Canceled", !.kind = "nullopt",
                                             !.fd = src.fd,
                                             !.is_async_state = src.is_async_state]]
       ELSE /\ sch' = [sch EXCEPT !.pc = "send"]
            /\ UNCHANGED <<src, obs>>
    /\ UNCHANGED <<side, cfg, out, dep, h, canc>>

\* Faulty variant: the query is submitted on every pass.
TryGenerateSend_Unguarded ==
    /\ sch.pc = "send"
    /\ sch' = [sch EXCEPT !.pc = "read"]
    /\ h' = executor_sendQuery(executor_setCallbacks(h))
    /\ src' = [src EXCEPT !.was_query_sent = TRUE]
    /\ obs' = [obs EXCEPT
           !.calls.send = @ + 1,
           !.touchedAfterStop = @ \/ h.cancelled \/ h.finished]
    /\ UNCHANGED <<side, cfg, out, dep, canc>>

\* tryGenerate(): the callbacks and sendQuery(), on the first pass only.
TryGenerateSend ==
    /\ sch.pc = "send"
    /\ sch' = [sch EXCEPT !.pc = "read"]
    /\ IF ~src.was_query_sent
       THEN /\ h' = executor_sendQuery(executor_setCallbacks(h))
            /\ src' = [src EXCEPT !.was_query_sent = TRUE]
            /\ obs' = [obs EXCEPT
                   !.calls.send = @ + 1,
                   !.touchedAfterStop = @ \/ h.cancelled \/ h.finished]
       ELSE UNCHANGED <<h, src, obs>>
    /\ UNCHANGED <<side, cfg, out, dep, canc>>

\* tryGenerate(): the read and what follows it, then the rest of work().
TryGenerateRead ==
    /\ sch.pc = "read"
    /\ \E res \in (IF src.async_read THEN executor_read(h, cfg.blocks)
                   ELSE {executor_readBlock(h, cfg.blocks)}) :
          LET g == tryGenerateRead(src, res.h, res)
          IN /\ g.finish > 0 => FinishCalls < MaxFinishCalls
             /\ src' = ISource_work(g.src, g)
             /\ h' = g.h
             /\ sch' = [sch EXCEPT !.pc = IF g.kind = "throw" THEN "failed" ELSE "idle",
                                   !.status = "none",
                                   !.fdReady = FALSE]
             /\ obs' = [obs EXCEPT
                    !.calls.finishGen = @ + g.finish,
                    !.touchedAfterStop = @ \/ h.cancelled \/ h.finished,
                    !.readBeforeSend = @ \/ ~h.sent,
                    !.lastGen = [outcome |-> IF res.type = "Data" /\ res.block.columns = 0
                                             THEN "EndOfStream" ELSE res.type,
                                 kind |-> g.kind,
                                 chunk |-> g.chunk,
                                 fdGiven |-> res.fd,
                                 fd |-> g.src.fd,
                                 is_async_state |-> g.src.is_async_state,
                                 has_input |-> ISource_work(g.src, g).has_input,
                                 finish |-> g.finish,
                                 emitted |-> Len(obs.emitted),
                                 srcSame |-> g.src = src,
                                 hSame |-> g.h = h]]
    /\ UNCHANGED <<side, cfg, out, dep, canc>>

\* The descriptor of an Async source becomes readable.
FdReady ==
    /\ sch.pc = "idle"
    /\ sch.status = "Async"
    /\ ~sch.fdReady
    /\ sch' = [sch EXCEPT !.fdReady = TRUE]
    /\ UNCHANGED <<side, cfg, src, out, dep, h, canc, obs>>

\* The scheduler calls onUpdatePorts() after a prepare().
OnUpdatePorts ==
    /\ sch.pc = "idle"
    /\ sch.started
    /\ LET r == onUpdatePorts(src, out, h)
       IN /\ r.finish > 0 => FinishCalls < MaxFinishCalls
          /\ src' = r.src
          /\ h' = r.h
          /\ obs' = [obs EXCEPT !.calls.finishUpd = @ + r.finish]
    /\ UNCHANGED <<side, cfg, out, dep, sch, canc>>

\* Another thread enters onCancel(): was_query_canceled = true.
OnCancelSetFlag ==
    /\ canc.pc = "idle"
    /\ canc.reqs < MaxCancels
    /\ src' = onCancelFlag(src)
    /\ canc' = [pc |-> "flag", reqs |-> canc.reqs + 1]
    /\ UNCHANGED <<side, cfg, out, dep, h, sch, obs>>

\* onCancel(): query_executor->cancel(&read_context).
OnCancelCallExecutor ==
    /\ canc.pc = "flag"
    /\ h' = onCancelExecutor(h)
    /\ canc' = [canc EXCEPT !.pc = "idle"]
    /\ obs' = [obs EXCEPT !.calls.cancel = @ + 1]
    /\ UNCHANGED <<side, cfg, src, out, dep, sch>>

\* The consumer of the main output pulls the chunk in the slot.
Consume ==
    /\ out.data # <<>>
    /\ out' = [out EXCEPT !.data = <<>>]
    /\ UNCHANGED <<side, cfg, src, dep, h, sch, canc, obs>>

\* The consumer of the main output closes its input: the port is finished.
DownstreamFinish ==
    /\ ~out.finished
    /\ out' = port_finish(out)
    /\ obs' = [obs EXCEPT !.downClosed = TRUE]
    /\ UNCHANGED <<side, cfg, src, dep, h, sch, canc>>

\* The consumer of the coordination port pulls the marker in the slot.
DepConsume ==
    /\ dep.data # <<>>
    /\ dep' = [dep EXCEPT !.data = <<>>]
    /\ UNCHANGED <<side, cfg, src, out, h, sch, canc, obs>>

\* The consumer of the coordination port closes its input.
DepFinish ==
    /\ dep.connected
    /\ ~dep.finished
    /\ dep' = port_finish(dep)
    /\ UNCHANGED <<side, cfg, src, out, h, sch, canc, obs>>

\* The scheduler calls prepare() of a side-channel source: ISource::prepare().
SidePrepare(k) ==
    /\ side[k].exists
    /\ side[k].status # "Ready"
    /\ LET s == side[k]
           b == ISource_prepare(s, s.port)
       IN side' = [side EXCEPT ![k] =
              [b.src EXCEPT !.port = b.out,
                            !.status = b.status,
                            !.emitted = @ + (Len(b.out.data) - Len(s.port.data))]]
    /\ UNCHANGED <<cfg, src, out, dep, h, sch, canc, obs>>

\* The scheduler calls work() of a side-channel source: generate() asks the executor.
SideWork(k) ==
    /\ side[k].exists
    /\ side[k].status = "Ready"
    /\ LET s == side[k]
           block == executor_getSideBlock(s.answers)
           chunk == IF k = "totals" THEN RemoteTotalsSource_generate(block)
                    ELSE RemoteExtremesSource_generate(block)
           g == ISource_tryGenerate(chunk)
       IN side' = [side EXCEPT ![k] =
              [ISource_work(s, g) EXCEPT
                  !.status = "none",
                  !.answers = IF @ = <<>> THEN @ ELSE Tail(@),
                  !.gets = @ + 1,
                  !.calls = @ \cup {IF k = "totals" THEN "getTotals" ELSE "getExtremes"}]]
    /\ UNCHANGED <<cfg, src, out, dep, h, sch, canc, obs>>

\* The consumer of a side-channel output pulls the chunk in the slot.
SideConsume(k) ==
    /\ side[k].exists
    /\ side[k].port.data # <<>>
    /\ side' = [side EXCEPT ![k].port.data = <<>>]
    /\ UNCHANGED <<cfg, src, out, dep, h, sch, canc, obs>>

SidePrepareStep == \E k \in SideKinds : SidePrepare(k)

SideWorkStep == \E k \in SideKinds : SideWork(k)

SideConsumeStep == \E k \in SideKinds : SideConsume(k)

Next ==
    \/ ConnectToScheduler
    \/ Prepare
    \/ TryGenerateCheck
    \/ TryGenerateSend
    \/ TryGenerateRead
    \/ FdReady
    \/ OnUpdatePorts
    \/ OnCancelSetFlag
    \/ OnCancelCallExecutor
    \/ Consume
    \/ DownstreamFinish
    \/ DepConsume
    \/ DepFinish

Spec == Init /\ [][Next]_vars

\* A pipe of the main source alone, with every choice about aggregation info.
InitAgg ==
    /\ \E c \in {x \in AggConfigs : Len(x.infos) = Len(x.blocks)} : SourceInit(c)
    /\ side = createRemoteSourcePipe("query_executor", FALSE, FALSE, <<>>, <<>>)

\* The main source without a coordination port.
NextAgg ==
    \/ Prepare
    \/ TryGenerateCheck
    \/ TryGenerateSend
    \/ TryGenerateRead
    \/ FdReady
    \/ OnUpdatePorts
    \/ OnCancelSetFlag
    \/ OnCancelCallExecutor
    \/ Consume
    \/ DownstreamFinish

SpecAgg == InitAgg /\ [][NextAgg]_vars

\* An asynchronous main source that nobody cancels and whose consumer stays.
InitFair ==
    /\ MainInit
    /\ cfg.async_read
    /\ side = createRemoteSourcePipe("query_executor", FALSE, FALSE, <<>>, <<>>)

NextFair ==
    \/ Prepare
    \/ TryGenerateCheck
    \/ TryGenerateSend
    \/ TryGenerateRead
    \/ FdReady
    \/ OnUpdatePorts
    \/ Consume

\* The scheduler does not stop driving the source, descriptors become readable
\* and the consumer keeps pulling.
SpecFair ==
    /\ InitFair
    /\ [][NextFair]_vars
    /\ WF_vars(Prepare)
    /\ WF_vars(TryGenerateCheck)
    /\ WF_vars(TryGenerateSend)
    /\ WF_vars(TryGenerateRead)
    /\ WF_vars(FdReady)
    /\ WF_vars(Consume)

\* The side-channel sources alone.
NextSide ==
    \/ SidePrepareStep
    \/ SideWorkStep
    \/ SideConsumeStep

SpecSide == InitSide /\ [][NextSide]_vars

\* The whole pipe: the main source and its side-channel sources over one executor.
NextPipe ==
    \/ Prepare
    \/ TryGenerateCheck
    \/ TryGenerateSend
    \/ TryGenerateRead
    \/ OnUpdatePorts
    \/ OnCancelSetFlag
    \/ OnCancelCallExecutor
    \/ Consume
    \/ DownstreamFinish
    \/ SidePrepareStep
    \/ SideWorkStep
    \/ SideConsumeStep

SpecPipe == InitPipe /\ [][NextPipe]_vars

----------------------------------------------------------------------------
\* Properties

\* s is a prefix of t.
IsPrefix(s, t) == Len(s) <= Len(t) /\ \A i \in 1..Len(s) : s[i] = t[i]

\* A run nobody cancelled, whose consumer never closed the main output and in which
\* tryGenerate() never threw.
NormalRun == canc.reqs = 0 /\ ~obs.downClosed /\ sch.pc # "failed"

\* C1: a prepare() entered with was_query_canceled set returns Finished with the
\* main output finished, whatever else holds on entry (parked in the async
\* sub-state or not, query sent or not): it never returns Async.
C1_CancelledPrepareFinishes ==
    obs.lastPrep.canc =>
        /\ obs.lastPrep.status = "Finished"
        /\ obs.lastPrep.status # "Async"
        /\ obs.lastPrep.outFinished

\* C1 witness: a prepare() found the flag set while the source was parked in the
\* async sub-state.
C1_Witness ==
    /\ obs.lastPrep.canc
    /\ obs.lastPrep.async
    /\ obs.lastPrep.status = "Finished"

\* C2 as stated: with cancellation requested once and prepare() driven to
\* Finished, finish() was called at most once and cancel() at most once.
C2_AtMostOnceEach ==
    (canc.reqs = 1 /\ canc.pc = "idle" /\ obs.lastPrep.canc /\ sch.status = "Finished") =>
        /\ FinishCalls <= 1
        /\ obs.calls.cancel <= 1

\* C2 amended: cancel() is called exactly once per completed onCancel() (at most
\* once when cancellation is requested once), and a prepare() or a tryGenerate()
\* that finds the flag set makes no call on the executor.
C2_CancelOncePerRequest ==
    /\ canc.pc = "idle" => obs.calls.cancel = canc.reqs
    /\ canc.pc = "flag" => obs.calls.cancel = canc.reqs - 1
    /\ obs.lastPrep.canc => (obs.lastPrep.finish = 0 /\ obs.lastPrep.handleSame)
    /\ obs.lastGen.outcome = "Canceled" => obs.lastGen.finish = 0

\* C2 witness: one cancellation, observed by a prepare() that returned Finished,
\* in a run in which finish() had already been called twice.
C2_Witness ==
    /\ canc.reqs = 1 /\ canc.pc = "idle"
    /\ obs.lastPrep.canc /\ sch.status = "Finished"
    /\ obs.calls.cancel = 1
    /\ FinishCalls = 2

\* C3 as stated: no sendQuery() and no read happens on an executor that was
\* already told to cancel or to finish.
C3_NoCallAfterStop == ~obs.touchedAfterStop

\* C4: from every reachable state, onCancel() applied twice leaves the source and
\* the executor as onCancel() applied once does (it touches no port).
C4_OnCancelIdempotent ==
    LET once == onCancel(src, h)
        twice == onCancel(once.src, once.h)
    IN /\ twice = once
       /\ once.src.was_query_canceled /\ once.h.cancelled

\* C4 witness: onCancel() has run to completion twice.
C4_Witness ==
    /\ canc.reqs = 2 /\ canc.pc = "idle"
    /\ obs.calls.cancel = 2
    /\ src.was_query_canceled /\ h.cancelled

\* C5: a tryGenerate() whose read returned a file descriptor records it, enters
\* the async sub-state and hands back an empty chunk, so nothing reaches the main
\* output; the prepare() right after it, if not cancelled, returns Async and
\* touches neither port nor executor; tryGenerate() is not running, nor due,
\* while the source is parked.
C5_NeedsWaitParks ==
    /\ obs.lastGen.outcome = "FileDescriptor" =>
            /\ obs.lastGen.fd = obs.lastGen.fdGiven
            /\ obs.lastGen.fd \in Fds
            /\ obs.lastGen.is_async_state
            /\ obs.lastGen.kind = "chunk"
            /\ obs.lastGen.chunk = EmptyChunk
            /\ ~obs.lastGen.has_input
    /\ (obs.lastPrep.prevGen = "FileDescriptor" /\ ~obs.lastPrep.canc) =>
            /\ obs.lastPrep.status = "Async"
            /\ obs.lastPrep.portsSame
            /\ obs.lastPrep.handleSame
    /\ src.is_async_state => (sch.pc \in {"idle", "failed"} /\ sch.status # "Ready")

\* C5 witness: the prepare() after a file-descriptor read returned Async.
C5_Witness ==
    /\ obs.lastPrep.prevGen = "FileDescriptor"
    /\ ~obs.lastPrep.canc
    /\ obs.lastPrep.status = "Async"
    /\ src.fd \in Fds

\* C6: a tryGenerate() whose read returned a parallel-replicas token leaves the
\* async sub-state cleared, hands back an empty chunk (no payload, no end of
\* stream) and does not finish the executor; the prepare() after it does not
\* return Async.
C6_TokenIsSilent ==
    /\ obs.lastGen.outcome = "ParallelReplicasToken" =>
            /\ ~obs.lastGen.is_async_state
            /\ obs.lastGen.kind = "chunk"
            /\ obs.lastGen.chunk = EmptyChunk
            /\ ~obs.lastGen.has_input
            /\ obs.lastGen.finish = 0
    /\ obs.lastPrep.prevGen = "ParallelReplicasToken" => obs.lastPrep.status # "Async"

\* C6 witness: the prepare() after a token read returned Ready again.
C6_Witness ==
    /\ obs.lastPrep.prevGen = "ParallelReplicasToken"
    /\ obs.lastPrep.status = "Ready"
    /\ ~src.finished /\ ~h.finished

\* C7: a prepare() whose base status is PortFull pushes one empty marker on the
\* coordination port when it is connected, not finished and its slot is free,
\* and none otherwise; no prepare() pushes more than one, a prepare() with
\* another base status pushes none, and only empty chunks are on that port.
C7_OneMarkerPerPortFull ==
    /\ obs.lastPrep.base = "PortFull" =>
            obs.lastPrep.markers = (IF obs.lastPrep.depOk THEN 1 ELSE 0)
    /\ obs.lastPrep.base # "PortFull" => obs.lastPrep.markers = 0
    /\ obs.lastPrep.markers \in {0, 1}
    /\ \A i \in 1..Len(dep.data) : dep.data[i] = EmptyChunk
    /\ Len(dep.data) <= 1

\* C7 witness: a PortFull prepare() pushed its marker, which is still in the slot.
C7_Witness ==
    /\ obs.lastPrep.base = "PortFull"
    /\ obs.lastPrep.depOk
    /\ obs.lastPrep.markers = 1
    /\ dep.data = <<EmptyChunk>>

\* C8: in blocking mode, in a normal run, the chunks pushed on the main output
\* are the non-empty blocks of the stream, in order and with their row counts;
\* when prepare() returns Finished all of them were pushed, nothing was pushed
\* for the empty block, and the main output is finished.
C8_BlockingStreamInOrder ==
    (~cfg.async_read /\ NormalRun) =>
        /\ IsPrefix(obs.emitted, cfg.blocks)
        /\ sch.status = "Finished" => (obs.emitted = cfg.blocks /\ out.finished)

\* C8 witness: two blocks of different sizes were streamed and the source finished.
C8_Witness ==
    /\ ~cfg.async_read /\ NormalRun
    /\ sch.status = "Finished"
    /\ Len(obs.emitted) = 2
    /\ obs.emitted[1] # obs.emitted[2]
    /\ obs.emitted = cfg.blocks

\* C9 as stated: in a normal run that reached Finished, finish() was called
\* exactly once.
C9_FinishExactlyOnce ==
    (NormalRun /\ sch.status = "Finished") => FinishCalls = 1

\* C9 amended: in a normal run that reached Finished, finish() was called once
\* by tryGenerate() on the empty block and at least once more by prepare(), each
\* prepare() that takes the base Finished path and each onUpdatePorts() on a
\* finished main output adding a call; the executor has been told to finish.
C9_FinishByGenerateAndPrepare ==
    (NormalRun /\ sch.status = "Finished") =>
        /\ obs.calls.finishGen = 1
        /\ obs.calls.finishPrep >= 1
        /\ FinishCalls >= 2
        /\ h.finished

\* C9 witness: a normal run of two blocks reached Finished with two finish() calls.
C9_Witness ==
    /\ NormalRun /\ sch.status = "Finished"
    /\ Len(obs.emitted) = 2
    /\ obs.calls.finishGen = 1 /\ obs.calls.finishPrep = 1 /\ obs.calls.finishUpd = 0

\* C10: sendQuery() is called at most once, together with the callbacks, by the
\* first tryGenerate() that passes the cancellation check and before that pass
\* reads; a source whose first tryGenerate() found the flag set never sends.
C10_SendQueryOnce ==
    /\ obs.calls.send <= 1
    /\ obs.calls.send = 1 <=> src.was_query_sent
    /\ src.was_query_sent <=> h.sent
    /\ h.sent <=> h.callbacks
    /\ sch.pc = "read" => h.sent
    /\ ~obs.readBeforeSend
    /\ obs.lastGen.outcome \notin {"none", "Canceled"} => obs.calls.send = 1
    /\ obs.cancelSeenUnsent => obs.calls.send = 0

\* C10 witness: the query was sent once and two blocks were read after it.
C10_Witness ==
    /\ obs.calls.send = 1
    /\ h.pos = 3
    /\ ~obs.readBeforeSend

\* C11: a totals or extremes source asks the executor once per generate() and
\* emits one chunk per present block; the first absent block finishes it and
\* generate() is not invoked again, so it emits as many chunks as the answers
\* start with present blocks: one when the block is present once.
C11_SideSourceSingleShot ==
    \A k \in SideKinds :
        LET s == side[k]
            n == LeadingPresent(s.answers0)
        IN s.exists =>
            /\ s.emitted + (IF s.has_input THEN 1 ELSE 0) = s.gets - (IF s.finished THEN 1 ELSE 0)
            /\ s.emitted <= n
            /\ s.gets <= n + 1
            /\ s.finished => (s.gets = n + 1 /\ ~s.has_input /\ s.emitted = n)
            /\ s.status = "Finished" => (s.finished /\ s.port.finished)

\* C11 witness: the totals block was present once, then absent: the source has
\* finished after emitting one chunk.
C11_Witness ==
    /\ side.totals.exists
    /\ side.totals.answers0 = <<TRUE, FALSE>>
    /\ side.totals.status = "Finished"
    /\ side.totals.emitted = 1
    /\ side.totals.gets = 2

\* C12: add_aggregation_info is what the constructor made it, the caller's
\* request or an aggregate-function column in the header, and stays so; when it
\* is set every chunk pushed on the main output carries an AggregatedChunkInfo
\* with the bucket_num and is_overflows of its block, and when it is not set no
\* pushed chunk carries one.
C12_AggregationInfoAllOrNone ==
    /\ src.add_aggregation_info <=> (cfg.add_aggregation_info_ \/ cfg.header_aggregate)
    /\ Len(obs.emittedInfo) = Len(obs.emitted)
    /\ Len(obs.emittedInfo) <= Len(cfg.infos)
    /\ \A i \in 1..Len(obs.emittedInfo) :
          IF src.add_aggregation_info
          THEN obs.emittedInfo[i] = [present |-> TRUE,
                                     bucket_num |-> cfg.infos[i].bucket_num,
                                     is_overflows |-> cfg.infos[i].is_overflows]
          ELSE obs.emittedInfo[i] = NoChunkInfo

\* C12 witness: the header alone enabled the info, and two chunks of blocks
\* with different infos were pushed with them.
C12_Witness ==
    /\ ~cfg.add_aggregation_info_ /\ cfg.header_aggregate
    /\ Len(obs.emittedInfo) = 2
    /\ obs.emittedInfo[1].present /\ obs.emittedInfo[2].present
    /\ obs.emittedInfo[1].bucket_num = 7
    /\ obs.emittedInfo[2].bucket_num = -1

\* C13: in a pipe built by createRemoteSourcePipe every side-channel source asked
\* for holds the executor the main source holds; the side-channel sources call
\* nothing on it but getHeader (at construction) and getTotals / getExtremes, and
\* every sendQuery, finish and cancel the executor has seen, and every block read
\* from it, is a call of the main source.
C13_SharedHandleMainDrives ==
    /\ \A k \in SideKinds :
          side[k].exists =>
              /\ side[k].query_executor = side.main_executor
              /\ side[k].calls \subseteq
                     {"getHeader", IF k = "totals" THEN "getTotals" ELSE "getExtremes"}
    /\ h.sent <=> obs.calls.send > 0
    /\ h.cancelled <=> obs.calls.cancel > 0
    /\ h.finished <=> FinishCalls > 0
    /\ h.pos > 1 => obs.lastGen.outcome # "none"

\* C13 witness: both side-channel sources have asked the executor for their
\* block while the main source has sent the query, read and finished on it.
C13_Witness ==
    /\ side.totals.exists /\ side.extremes.exists
    /\ "getTotals" \in side.totals.calls
    /\ "getExtremes" \in side.extremes.calls
    /\ obs.calls.send = 1 /\ h.pos = 2 /\ h.finished /\ obs.calls.cancel = 1

\* C14: a prepare() entered with the cancellation flag clear and outside the
\* async sub-state, at a moment when ISource::prepare() yields Finished, takes
\* the base Finished path: it calls finish() on the handle once, leaves the
\* coordination port finished if one is connected, leaves the async flag clear,
\* leaves the main output finished and returns Finished.
C14_BaseFinishedPath ==
    LET p == obs.lastPrep
    IN (p.status # "none" /\ ~p.canc /\ ~p.async /\ p.baseAt = "Finished") =>
          /\ p.base = "Finished"
          /\ p.status = "Finished"
          /\ p.finish = 1
          /\ p.hFinished
          /\ p.depConnected => p.depFinished
          /\ ~p.asyncAfter
          /\ p.outFinished

\* C14 witness: end-of-stream was signalled by tryGenerate, and the prepare()
\* that followed found an open coordination port and took the base Finished path.
C14_Witness ==
    /\ obs.lastPrep.baseAt = "Finished" /\ ~obs.lastPrep.canc /\ ~obs.lastPrep.async
    /\ obs.lastPrep.depOk
    /\ obs.lastPrep.prevGen = "EndOfStream"
    /\ canc.reqs = 0 /\ ~obs.downClosed

\* C15: when a prepare() entered with the cancellation flag set returns Finished,
\* the handle has by then been told to finish or to cancel, the main output is
\* finished, and the coordination port, if connected, is finished.
C15_CancelShutsEverythingDown ==
    LET p == obs.lastPrep
    IN (p.canc /\ p.status = "Finished") =>
          /\ p.hFinished \/ p.hCancelled
          /\ p.outFinished
          /\ p.depConnected => p.depFinished

\* C16: a Nothing from the non-blocking read makes tryGenerate throw: it returns
\* no chunk, leaves the flags and the descriptor of the source and the handle as
\* they were (no finish, no async sub-state), nothing is pushed afterwards and
\* the handle is not read again; and nothing else makes the source fail.
C16_NothingIsFatal ==
    LET g == obs.lastGen
    IN /\ g.outcome = "Nothing" =>
              /\ cfg.async_read
              /\ g.kind = "throw"
              /\ g.chunk = EmptyChunk /\ ~g.has_input
              /\ g.srcSame /\ ~g.is_async_state
              /\ g.hSame /\ g.finish = 0
              /\ Len(obs.emitted) = g.emitted
              /\ sch.pc = "failed"
              /\ src.finished /\ src.got_exception
       /\ sch.pc = "failed" => g.outcome = "Nothing"

\* C16 witness: the read returned Nothing after one chunk had gone out.
C16_Witness ==
    /\ obs.lastGen.outcome = "Nothing"
    /\ sch.pc = "failed"
    /\ Len(obs.emitted) = 1
    /\ h.pos = 2 /\ ~h.finished

\* C17: an onUpdatePorts() that finds the main output unfinished changes nothing;
\* one that finds it finished sets the cancellation flag and tells the handle to
\* finish, touching no port and nothing else of the source. From then on the
\* flag stays set, every prepare() returns Finished, and a tryGenerate returns
\* no data at its first check, so the handle is neither sent to nor read again.
C17_OnUpdatePortsEffect ==
    /\ [][OnUpdatePorts =>
             IF out.finished
             THEN /\ src' = [src EXCEPT !.was_query_canceled = TRUE]
                  /\ h' = [h EXCEPT !.finished = TRUE]
                  /\ UNCHANGED <<out, dep>>
             ELSE UNCHANGED <<src, out, dep, h>>]_vars
    /\ [](obs.calls.finishUpd > 0 =>
             /\ src.was_query_canceled /\ h.finished /\ out.finished
             /\ sch.pc = "idle")
    /\ [][(obs.calls.finishUpd > 0 /\ Prepare) => sch'.status = "Finished"]_vars
    /\ [][(obs.calls.finishUpd > 0 /\ TryGenerateCheck) =>
             /\ h' = h
             /\ src'.finished /\ ~src'.has_input
             /\ obs'.lastGen.kind = "nullopt"]_vars

\* C17 witness: with no onCancel() at all, downstream closed the output of a
\* Ready source; onUpdatePorts() ran, the tryGenerate that followed returned no
\* data and the prepare() after it returned Finished.
C17_Witness ==
    /\ canc.reqs = 0
    /\ obs.calls.finishUpd = 1 /\ FinishCalls = 1
    /\ obs.lastGen.outcome = "Canceled"
    /\ obs.lastPrep.status = "Finished" /\ obs.lastPrep.canc
    /\ obs.calls.send = 0

C19_MarkerAfterEachUnit ==
    LET p == obs.lastPrep
    IN (/\ p.prevGen \in {"Data", "ParallelReplicasToken"}
        /\ p.depOk
        /\ ~p.canc /\ p.status # "Finished") =>
           p.markers = 1

\* C20: once prepare() has returned Finished, through the cancellation path or
\* the base Finished path, the main output is finished and stays so, the status
\* the scheduler holds stays Finished through every later prepare(), nothing
\* more is pushed on the main output or on the coordination port, and the
\* cancellation flag, here as everywhere, is never reset.
C20_FinishedIsAbsorbing ==
    /\ [](sch.status = "Finished" => out.finished)
    /\ [][sch.status = "Finished" =>
             /\ sch'.status = "Finished"
             /\ out'.finished
             /\ obs'.emitted = obs.emitted
             /\ Len(out'.data) <= Len(out.data)
             /\ Len(dep'.data) <= Len(dep.data)]_vars
    /\ [][src.was_query_canceled => src'.was_query_canceled]_vars

\* C20 witness: prepare() returned Finished through the base path, the source
\* was cancelled afterwards, and a later prepare() returned Finished through
\* the cancellation path.
C20_Witness ==
    /\ sch.status = "Finished"
    /\ obs.calls.finishPrep = 1
    /\ obs.calls.finishGen = 1
    /\ obs.calls.cancel = 1
    /\ obs.lastPrep.canc /\ obs.lastPrep.status = "Finished"
    /\ Len(obs.emitted) = 2

====
